---------------------------- MODULE Spec2Model ----------------------------
(***************************************************************************)
(* Nepal landslide susceptibility mapping: a model of the classification   *)
(* engine (functions.classify_raster), the weighted overlay of main.py,    *)
(* the rainfall-adjusted fusion                                            *)
(* (functions.create_final_landslide_susceptibility_map), the weight table *)
(* (constants.FinalWeights), the staged, cached orchestrator (main.py),    *)
(* the start-up of main.py with the path tests of constants.py, and the    *)
(* stage chains forecast_pipeline and constants_raster_pipeline with their *)
(* /vsimem/ buffers.                                                       *)
(*                                                                         *)
(* Rasters are modelled by their cells.  The numpy operations of the code  *)
(* are element-wise, so classify_raster and the overlay are followed on    *)
(* one cell; the rainfall fusion needs the whole base raster (its scaling  *)
(* factor is a statistic of all cells) and is followed on NCells cells.    *)
(* Cell values are whole numbers and weights are whole hundredths, so that *)
(* every product and sum of the code is exact arithmetic here; the         *)
(* quotients of the rainfall fusion are kept as reduced fractions.         *)
(* float32 rounding is not modelled.                                       *)
(*                                                                         *)
(* Python's None is the empty tuple <<>> and a present value x is <<x>>.   *)
(***************************************************************************)
EXTENDS Integers, Sequences, FiniteSets, TLC

VARIABLES
    \* ---- classify_raster (functions.py 99-153), one cell ----
    c_pc,                  \* position inside classify_raster
    array_ds,              \* the input cell, band_ds.ReadAsArray()
    band_nodata,           \* band_ds.GetNoDataValue(): <<>> or <<v>>
    classification_range,  \* <<>> (None) or <<rules>>, rules a sequence
    nodata,                \* the local variable `nodata` (lines 114-116)
    classified_array,      \* the output cell while it is computed
    rule_i,                \* index of the next rule of the for loop
    out_cell,              \* the cell as stored in the output band: <<>> or <<v>>
    out_nodata,            \* the nodata value the output band declares
    \* ---- constants.FinalWeights (constants.py 153-187) ----
    w_pc,                  \* "new", "accepted", "zero_error" or "sum_error"
    weights,               \* the fields of the dataclass, in hundredths
    \* ---- base map weighted overlay (main.py 102-173), one cell ----
    o_pc,                  \* "loop", "clamp", "done"
    FINAL_WEIGHTS,         \* asdict(constants.FinalWeights()), in hundredths
    layers,                \* the cell of each classified raster read so far
    summed_array,          \* the accumulator cell, in hundredths: <<>> or <<v>>
    \* ---- create_final_landslide_susceptibility_map (functions.py 368-438) ----
    f_pc,                  \* "stats", "mask", "compute", "clamp", "done", "error"
    base_file,             \* the cells of the three rasters on disk
    recorded_file,
    forecast_file,
    scaling_factor,        \* <<>> or <<basemap_max - basemap_min>>
    basemap_array,         \* the arrays read, masked in place
    recorded_rainfall_array,
    forecast_rainfall_array,
    result,                \* <<>> or the result cells, each a fraction [n, d]
    \* ---- the orchestrator, main.py ----
    m_pc,                  \* the section of main.py about to run
    run,                   \* which invocation of main.py this is
    files,                 \* the output artifacts that exist on disk
    start_files,           \* the artifacts that existed when this run began
    n_days,                \* distinct forecast dates in the forecast csv
    m_i,                   \* index of the loop of the current section
    calls,                 \* raster engine calls of this run: <<section, call>>
    recorded_rainfall_raster_filepath,         \* <<>> or <<path>>
    classified_forecasted_rainfall_filepaths,  \* the list of main.py 217
    final_map_filepaths,   \* output paths of the final maps written
    first_run,             \* what the first run yielded: its three path values
    \* ---- start-up of main.py and its inputs (main.py 58-73, 85-227) ----
    s_pc,                  \* the statement of main.py about to run
    removed,               \* input paths removed from the checkout
    s_weights,             \* the weight table FinalWeights is built with
    s_i,                   \* index of the loop of main.py 85
    s_error,               \* <<>> or the exception raised: who raised, names
    s_calls,               \* raster engine calls made so far
    \* ---- the stage chains (functions.py 293-365) and their caller ----
    p_pc,                  \* the caller: "loop", "done", "aborted" or "tasks"
    p_i,                   \* the chain the loop of the caller is at
    chain,                 \* per pipeline invocation: its status and position
    out_kind,              \* type of the output paths passed: "Path" or "str"
    vsimem,                \* the /vsimem/ files of the process: <<>> or <<content>>
    disk,                  \* the output raster of each chain: <<>> or <<content>>
    finals                 \* forecast chains whose final map was produced

clsVars == <<c_pc, array_ds, band_nodata, classification_range, nodata,
             classified_array, rule_i, out_cell, out_nodata>>

wVars == <<w_pc, weights>>
ovVars == <<o_pc, FINAL_WEIGHTS, layers, summed_array>>

finVars == <<f_pc, base_file, recorded_file, forecast_file, scaling_factor,
             basemap_array, recorded_rainfall_array, forecast_rainfall_array,
             result>>

mainVars == <<m_pc, run, files, start_files, n_days, m_i, calls,
              recorded_rainfall_raster_filepath,
              classified_forecasted_rainfall_filepaths, final_map_filepaths,
              first_run>>

startVars == <<s_pc, removed, s_weights, s_i, s_error, s_calls>>

pipeVars == <<p_pc, p_i, chain, out_kind, vsimem, disk, finals>>

vars == <<clsVars, wVars, ovVars, finVars, mainVars, startVars, pipeVars>>

\* What each component leaves alone
notCls == <<wVars, ovVars, finVars, mainVars, startVars, pipeVars>>
notW == <<clsVars, ovVars, finVars, mainVars, startVars, pipeVars>>
notOv == <<clsVars, wVars, finVars, mainVars, startVars, pipeVars>>
notFin == <<clsVars, wVars, ovVars, mainVars, startVars, pipeVars>>
notMain == <<clsVars, wVars, ovVars, finVars, startVars, pipeVars>>
notStart == <<clsVars, wVars, ovVars, finVars, mainVars, pipeVars>>
notPipe == <<clsVars, wVars, ovVars, finVars, mainVars, startVars>>

---------------------------------------------------------------------------
(* Option values *)
None == <<>>
Some(x) == <<x>>
IsNone(o) == o = <<>>
Get(o) == o[1]

(* Program constants *)
DefaultNoData == -128   \* functions.py 116, 133, 148; main.py 110, 149, 164
WarpNoData == -9999     \* dstNodata of every gdal.Warp, noData of gdal.Grid
Int8Min == -128         \* np.int8 / gdal.GDT_Int8
Int8Max == 127
RecordedWeight == 2     \* recorded_rainfall_weight=0.02, in hundredths
ForecastWeight == 10    \* forecast_rainfall_weight=0.1, in hundredths
FLAG_UPDATE_FORECAST_RASTERS == 1

(* Bounds of the model *)
MaxRules == 2           \* longest rule list drawn
MaxEdits == 2           \* most weights changed from their defaults
FullLayers == 3         \* overlay layers whose cell is drawn from every value
NCells == 3             \* cells of a raster of the rainfall fusion
MaxDays == 2            \* most forecast dates in the forecast csv
MaxRuns == 2            \* invocations of main.py followed
MaxRemoved == 2         \* most input paths removed from the checkout
ConstantChains == 1     \* constants_raster_pipeline invocations followed
MaxDeleted == 1         \* artifacts deleted by the operator between two runs

---------------------------------------------------------------------------
(* classify_raster                                                         *)

InInt8(v) == Int8Min <= v /\ v <= Int8Max

\* Two's-complement wrap of an integer into int8.
WrapInt8(v) == ((v - Int8Min) % 256) + Int8Min

\* np.full(array_shape, nodata, dtype=np.int8): the fill value is converted
\* to int8.  A value in range is kept.  GetNoDataValue() returns a float, and
\* the conversion of a float outside the range of int8 is undefined in C:
\* the builds wrap it, saturate it or give 0.
FullInt8(v) ==
    IF InInt8(v) THEN {v}
    ELSE {WrapInt8(v), Int8Min, Int8Max, 0}

\* out_band_ds.WriteArray(classified_array) into a GDT_Int8 band: GDAL
\* converts the buffer to the band's type and clamps to its range.
WriteInt8(v) ==
    IF v < Int8Min THEN Int8Min ELSE IF v > Int8Max THEN Int8Max ELSE v

\* The mask of one rule of the for loop (lines 127-132) at a cell holding v.
RuleMaskBuggyUpper(rule, v, nd) ==
    IF IsNone(rule.low) THEN v <= Get(rule.high) /\ v # nd
    ELSE IF IsNone(rule.high) THEN v >= Get(rule.low) /\ v # nd
    ELSE v >= Get(rule.low) /\ v <= Get(rule.high)

RuleMask(rule, v, nd) ==
    IF IsNone(rule.low) THEN v < Get(rule.high) /\ v # nd
    ELSE IF IsNone(rule.high) THEN v >= Get(rule.low) /\ v # nd
    ELSE v >= Get(rule.low) /\ v < Get(rule.high)

\* Inputs drawn
CellValues == {WarpNoData, DefaultNoData, -1, 0, 1, 2, Int8Max + 73}
NoDataValues == {None, Some(0), Some(WarpNoData)}
RuleBounds == {None, Some(0), Some(2)}
ClassCodes == {1, 2}
\* (None, None, value) raises a TypeError in the comparison and is not drawn.
Rules == {r \in [low : RuleBounds, high : RuleBounds, value : ClassCodes] :
            ~(IsNone(r.low) /\ IsNone(r.high))}
RuleLists == UNION {[1..n -> Rules] : n \in 0..MaxRules}
Ranges == {None} \cup {Some(rl) : rl \in RuleLists}

\* The component at rest, while another specification runs
ClsIdle ==
    /\ c_pc = "idle"
    /\ array_ds = 0
    /\ band_nodata = None
    /\ classification_range = None
    /\ nodata = None
    /\ classified_array = None
    /\ rule_i = 0
    /\ out_cell = None
    /\ out_nodata = None

ClsInit ==
    /\ c_pc = "open"
    /\ array_ds \in CellValues
    /\ band_nodata \in NoDataValues
    /\ classification_range \in Ranges
    /\ nodata = None
    /\ classified_array = None
    /\ rule_i = 0
    /\ out_cell = None
    /\ out_nodata = None

\* lines 106-121: open the raster, read nodata (default -128) and the array
ClassifyOpen ==
    /\ c_pc = "open"
    /\ nodata' = IF IsNone(band_nodata) THEN Some(DefaultNoData) ELSE band_nodata
    /\ c_pc' = IF IsNone(classification_range) THEN "pass" ELSE "full"
    /\ UNCHANGED <<array_ds, band_nodata, classification_range,
                   classified_array, rule_i, out_cell, out_nodata>>
    /\ UNCHANGED notCls

\* line 124: classified_array = np.full(array_shape, nodata, dtype=np.int8)
ClassifyFull ==
    /\ c_pc = "full"
    /\ \E f \in FullInt8(Get(nodata)) : classified_array' = Some(f)
    /\ rule_i' = 1
    /\ c_pc' = "rules"
    /\ UNCHANGED <<array_ds, band_nodata, classification_range, nodata,
                   out_cell, out_nodata>>
    /\ UNCHANGED notCls

\* lines 126-132: one iteration of the loop over the rules
ClassifyRule ==
    /\ c_pc = "rules"
    /\ rule_i <= Len(Get(classification_range))
    /\ LET rule == Get(classification_range)[rule_i] IN
         classified_array' =
            IF RuleMask(rule, array_ds, Get(nodata))
            THEN Some(rule.value) ELSE classified_array
    /\ rule_i' = rule_i + 1
    /\ UNCHANGED <<c_pc, array_ds, band_nodata, classification_range, nodata,
                   out_cell, out_nodata>>
    /\ UNCHANGED notCls

\* line 133: classified_array[array_ds == nodata] = -128
MaskedMissing(cur, v, nd) == cur

Masked(cur, v, nd) == IF v = nd THEN Some(DefaultNoData) ELSE cur

ClassifyMask ==
    /\ c_pc = "rules"
    /\ rule_i > Len(Get(classification_range))
    /\ classified_array' = Masked(classified_array, array_ds, Get(nodata))
    /\ c_pc' = "write"
    /\ UNCHANGED <<array_ds, band_nodata, classification_range, nodata,
                   rule_i, out_cell, out_nodata>>
    /\ UNCHANGED notCls

\* lines 134-136: classification_range is None, classified_array = array_ds
ClassifyPass ==
    /\ c_pc = "pass"
    /\ classified_array' = Some(array_ds)
    /\ c_pc' = "write"
    /\ UNCHANGED <<array_ds, band_nodata, classification_range, nodata,
                   rule_i, out_cell, out_nodata>>
    /\ UNCHANGED notCls

\* lines 140-153: create the GDT_Int8 output, WriteArray, SetNoDataValue(-128)
ClassifyWrite ==
    /\ c_pc = "write"
    /\ out_cell' = Some(WriteInt8(Get(classified_array)))
    /\ out_nodata' = Some(DefaultNoData)
    /\ c_pc' = "done"
    /\ UNCHANGED <<array_ds, band_nodata, classification_range, nodata,
                   classified_array, rule_i>>
    /\ UNCHANGED notCls

ClsNext ==
    \/ ClassifyOpen
    \/ ClassifyFull
    \/ ClassifyRule
    \/ ClassifyMask
    \/ ClassifyPass
    \/ ClassifyWrite

---------------------------------------------------------------------------
(* constants.FinalWeights                                                  *)

\* The fields of the dataclasses, in declared order (constants.py 141-164);
\* asdict keeps this order, and it is the order of the overlay loop.
Factors == <<"slope", "curvature", "lulc", "ndvi", "aspect",
             "river", "road", "fault", "soil", "geology">>
FactorSet == {Factors[i] : i \in 1..Len(Factors)}

\* The default weights (constants.py 155-164), in hundredths.
DefaultWeights ==
    [f \in FactorSet |->
        CASE f = "slope" -> 15 [] f = "curvature" -> 8 [] f = "lulc" -> 9
          [] f = "ndvi" -> 8 [] f = "aspect" -> 9 [] f = "river" -> 7
          [] f = "road" -> 9 [] f = "fault" -> 13 [] f = "soil" -> 10
          [] f = "geology" -> 12]

RECURSIVE SumOver(_, _)
\* Sum of w[f] over the factors of the sequence fs.
SumOver(w, fs) ==
    IF fs = <<>> THEN 0 ELSE w[Head(fs)] + SumOver(w, Tail(fs))

\* Python's round() of s hundredths to an integer: half to even.
Round(s) ==
    LET q == s \div 100
        r == s % 100
    IN IF r < 50 THEN q
       ELSE IF r > 50 THEN q + 1
       ELSE IF q % 2 = 0 THEN q ELSE q + 1

\* weight_values of __post_init__ (constants.py 167-176): fault is not listed.
weight_values ==
    <<"slope", "curvature", "lulc", "ndvi", "aspect",
      "river", "road", "soil", "geology">>

\* __post_init__ (constants.py 166-187)
PostInit(w) ==
    IF \E i \in 1..Len(weight_values) : w[weight_values[i]] = 0
    THEN "zero_error"
    ELSE IF Round(SumOver(w, weight_values)) # 1 THEN "sum_error"
    ELSE "accepted"

\* Weight tables drawn: the defaults with at most MaxEdits fields given
\* another value at instantiation.
EditValues == {0, 3, 5, 12, 60}
Edited(w, fs) == {[f \in FactorSet |-> IF f \in fs THEN e[f] ELSE w[f]] :
                    e \in [fs -> EditValues]}
WeightTables ==
    UNION {Edited(DefaultWeights, fs) :
             fs \in {x \in SUBSET FactorSet : Cardinality(x) <= MaxEdits}}

WIdle ==
    /\ w_pc = "idle"
    /\ weights = DefaultWeights

WInit ==
    /\ w_pc = "new"
    /\ weights \in WeightTables

\* constants.FinalWeights(...): the dataclass is built and validated
NewFinalWeights ==
    /\ w_pc = "new"
    /\ w_pc' = PostInit(weights)
    /\ UNCHANGED weights
    /\ UNCHANGED notW

WNext == NewFinalWeights

---------------------------------------------------------------------------
(* Base map weighted overlay, main.py 102-173                              *)

\* The accumulator holds hundredths: a cell value times a weight in
\* hundredths.  nodata = -128 (main.py 110) is -12800 hundredths.
Hundredths(v) == v * 100

\* raster_nodata of a classified raster: constants_raster_pipeline ends in
\* clip_raster, whose Warp declares dstNodata=-9999 (functions.py 272).
LayerNoData == WarpNoData

\* Cells drawn for a classified raster.  -15 is what an unmatched cell of a
\* raster with nodata -9999 holds when the int8 fill wraps.  The first
\* FullLayers layers draw from every value, the later ones from fewer.
LayerValues == {LayerNoData, WrapInt8(WarpNoData), 5, 10, Int8Max}
CoarseValues == {LayerNoData, 10, Int8Max}
ValuesOf(i) == IF i <= FullLayers THEN LayerValues ELSE CoarseValues

\* Weight tables drawn for the overlay: the defaults, the table of the
\* specification's example (0.5, 0.3, 0.2 on the first three layers), and
\* the defaults with lulc raised to 0.6.  main.py 66 builds FinalWeights
\* before the overlay, so only accepted tables reach it.
ExampleWeights ==
    [f \in FactorSet |->
        CASE f = "slope" -> 50 [] f = "curvature" -> 30 [] f = "lulc" -> 20
          [] OTHER -> 1]
HeavyWeights == [DefaultWeights EXCEPT !["lulc"] = 60]
OverlayTables ==
    {t \in {DefaultWeights, ExampleWeights, HeavyWeights} : PostInit(t) = "accepted"}

OvIdle ==
    /\ o_pc = "idle"
    /\ FINAL_WEIGHTS = DefaultWeights
    /\ layers = <<>>
    /\ summed_array = None

\* main.py 106-110: summed_array = None before the loop
OvInit ==
    /\ o_pc = "loop"
    /\ FINAL_WEIGHTS \in OverlayTables
    /\ layers = <<>>
    /\ summed_array = None

\* valid_mask = array != raster_nodata (main.py 126, 141)
valid_mask(v) == v # LayerNoData

\* main.py 113-132: the first raster of the loop (summed_array is None)
OverlayFirst ==
    /\ o_pc = "loop"
    /\ IsNone(summed_array)
    /\ \E v \in ValuesOf(1) :
         /\ layers' = Append(layers, v)
         /\ summed_array' =
              IF valid_mask(v)
              THEN Some(v * FINAL_WEIGHTS[Factors[1]])
              ELSE Some(Hundredths(DefaultNoData))
    /\ UNCHANGED <<o_pc, FINAL_WEIGHTS>>
    /\ UNCHANGED notOv

\* summed_array[valid_mask] += array_ds[valid_mask] * weight (main.py 143)
AccumulateNodataInvalidates(acc, v, w) ==
    IF valid_mask(v) THEN acc + v * w ELSE Hundredths(DefaultNoData)

Accumulate(acc, v, w) ==
    IF valid_mask(v) THEN acc + v * w ELSE acc

\* main.py 134-147: every later raster of the loop
OverlayLater ==
    /\ o_pc = "loop"
    /\ ~IsNone(summed_array)
    /\ Len(layers) < Len(Factors)
    /\ \E v \in ValuesOf(Len(layers) + 1) :
         /\ layers' = Append(layers, v)
         /\ summed_array' =
              Some(Accumulate(Get(summed_array), v,
                              FINAL_WEIGHTS[Factors[Len(layers) + 1]]))
    /\ UNCHANGED <<o_pc, FINAL_WEIGHTS>>
    /\ UNCHANGED notOv

\* main.py 149-171: summed_array[summed_array < 0] = -128, then the base map
\* is written as Float32 with nodata -128
OverlayClamp ==
    /\ o_pc = "loop"
    /\ Len(layers) = Len(Factors)
    /\ summed_array' =
         IF Get(summed_array) < 0
         THEN Some(Hundredths(DefaultNoData)) ELSE summed_array
    /\ o_pc' = "done"
    /\ UNCHANGED <<FINAL_WEIGHTS, layers>>
    /\ UNCHANGED notOv

OvNext ==
    \/ OverlayFirst
    \/ OverlayLater
    \/ OverlayClamp

---------------------------------------------------------------------------
(* create_final_landslide_susceptibility_map, functions.py 368-438         *)

\* A result cell is the fraction n / d in lowest terms with d > 0; a whole
\* number v is v / 1.
Abs(x) == IF x < 0 THEN -x ELSE x
RECURSIVE GCD(_, _)
GCD(a, b) == IF b = 0 THEN a ELSE GCD(b, a % b)
Fraction(n, d) ==
    LET g == GCD(Abs(n), Abs(d))
        sgn == IF d < 0 THEN -1 ELSE 1
    IN [n |-> sgn * (n \div g), d |-> sgn * (d \div g)]
Whole(v) == [n |-> v, d |-> 1]
Negative(q) == q.n < 0

SetMax(S) == CHOOSE x \in S : \A y \in S : y <= x
SetMin(S) == CHOOSE x \in S : \A y \in S : x <= y

\* The cells ComputeRasterMinMax looks at: those that are not the band's
\* nodata.  The base map declares -128 (main.py 164).  The statistic is
\* taken as exact.
StatCells(arr) == {arr[i] : i \in 1..Len(arr)} \ {DefaultNoData}

AllCells(arr) == {arr[i] : i \in 1..Len(arr)}

\* scaling_factor = basemap_max - basemap_min (functions.py 376-379)
ScalingOfAllCells(arr) == SetMax(AllCells(arr)) - SetMin(AllCells(arr))

Scaling(arr) == SetMax(StatCells(arr)) - SetMin(StatCells(arr))

\* array[array <= 0] = -128 and array[array < 0] = -128 (lines 390, 396, 402)
MaskNonPositive(arr) ==
    [i \in 1..Len(arr) |-> IF arr[i] <= 0 THEN DefaultNoData ELSE arr[i]]
MaskNegative(arr) ==
    [i \in 1..Len(arr) |-> IF arr[i] < 0 THEN DefaultNoData ELSE arr[i]]

\* lines 404-407 at one cell: step1 = S / b, step2 = step1 * r * 0.02,
\* step3 = step1 * f * 0.1, result = b + step2 + step3, over 100 * b.
\* b is never 0 here: the mask of line 390 has replaced it by -128.
Fuse(S, b, r, f) ==
    Fraction(100 * b * b + S * r * RecordedWeight + S * f * ForecastWeight,
             100 * b)

\* Cells drawn
BaseValues == {DefaultNoData, 0, 100, 200}
RecordedValues == {-1, 10}
ForecastValues == {DefaultNoData, 5}

FinIdle ==
    /\ f_pc = "idle"
    /\ base_file = <<>>
    /\ recorded_file = <<>>
    /\ forecast_file = <<>>
    /\ scaling_factor = None
    /\ basemap_array = <<>>
    /\ recorded_rainfall_array = <<>>
    /\ forecast_rainfall_array = <<>>
    /\ result = None

FinInit ==
    /\ f_pc = "stats"
    /\ base_file \in [1..NCells -> BaseValues]
    /\ recorded_file \in [1..NCells -> RecordedValues]
    /\ forecast_file \in [1..NCells -> ForecastValues]
    /\ scaling_factor = None
    /\ basemap_array = <<>>
    /\ recorded_rainfall_array = <<>>
    /\ forecast_rainfall_array = <<>>
    /\ result = None

\* lines 376-380: _get_raster_info of the base map
FinalStats ==
    /\ f_pc = "stats"
    /\ StatCells(base_file) # {}
    /\ scaling_factor' = Some(Scaling(base_file))
    /\ f_pc' = "mask"
    /\ UNCHANGED <<base_file, recorded_file, forecast_file, basemap_array,
                   recorded_rainfall_array, forecast_rainfall_array, result>>
    /\ UNCHANGED notFin

\* ComputeRasterMinMax raises when the band has no valid cell
FinalStatsFail ==
    /\ f_pc = "stats"
    /\ StatCells(base_file) = {}
    /\ f_pc' = "error"
    /\ UNCHANGED <<base_file, recorded_file, forecast_file, scaling_factor,
                   basemap_array, recorded_rainfall_array,
                   forecast_rainfall_array, result>>
    /\ UNCHANGED notFin

\* lines 382-402: the three arrays are read and masked in place
FinalMask ==
    /\ f_pc = "mask"
    /\ basemap_array' = MaskNonPositive(base_file)
    /\ recorded_rainfall_array' = MaskNegative(recorded_file)
    /\ forecast_rainfall_array' = MaskNegative(forecast_file)
    /\ f_pc' = "compute"
    /\ UNCHANGED <<base_file, recorded_file, forecast_file, scaling_factor,
                   result>>
    /\ UNCHANGED notFin

\* lines 404-407: step1, step2, step3 and result
FinalCompute ==
    /\ f_pc = "compute"
    /\ result' = Some([i \in 1..Len(basemap_array) |->
                          Fuse(Get(scaling_factor), basemap_array[i],
                               recorded_rainfall_array[i],
                               forecast_rainfall_array[i])])
    /\ f_pc' = "clamp"
    /\ UNCHANGED <<base_file, recorded_file, forecast_file, scaling_factor,
                   basemap_array, recorded_rainfall_array,
                   forecast_rainfall_array>>
    /\ UNCHANGED notFin

\* lines 409-438: result[result < 0] = -128, then the Float32 output is
\* written with nodata -128
FinalClamp ==
    /\ f_pc = "clamp"
    /\ result' = Some([i \in 1..Len(Get(result)) |->
                          IF Negative(Get(result)[i])
                          THEN Whole(DefaultNoData) ELSE Get(result)[i]])
    /\ f_pc' = "done"
    /\ UNCHANGED <<base_file, recorded_file, forecast_file, scaling_factor,
                   basemap_array, recorded_rainfall_array,
                   forecast_rainfall_array>>
    /\ UNCHANGED notFin

FinNext ==
    \/ FinalStats
    \/ FinalStatsFail
    \/ FinalMask
    \/ FinalCompute
    \/ FinalClamp

---------------------------------------------------------------------------
(* The orchestrator, main.py                                               *)

\* Output artifacts, named by kind and number: the classified raster of
\* factor i, the base map, the recorded rainfall raster, the forecast raster
\* and the final map of day d.
ClassifiedRaster(i) == <<"classified", i>>
BaseMap == <<"base", 0>>
RecordedRaster == <<"recorded", 0>>
ForecastRaster(d) == <<"forecast", d>>
FinalMapFile(d) == <<"final", d>>

AllArtifacts(days) ==
    {ClassifiedRaster(i) : i \in 1..Len(Factors)}
      \cup {BaseMap, RecordedRaster}
      \cup {ForecastRaster(d) : d \in 1..days}
      \cup {FinalMapFile(d) : d \in 1..days}

\* The raster engine calls of each function, in order.
\* constants_raster_pipeline (functions.py 350-360)
ConstantsCalls == <<"classify", "clip">>
\* the overlay of main.py 111-165: ten rasters read, the base map written
BaseCalls == [i \in 1..Len(Factors) + 1 |->
                 IF i <= Len(Factors) THEN "read" ELSE "write"]
\* forecast_pipeline (functions.py 301-334)
PipelineCalls == <<"grid", "reproject", "resample", "clip", "classify">>
\* create_final_landslide_susceptibility_map (functions.py 376-426)
FinalCalls == <<"stats", "read", "read", "read", "write">>

Logged(section, cs) == [i \in 1..Len(cs) |-> <<section, cs[i]>>]

MainIdle ==
    /\ m_pc = "idle"
    /\ run = 0
    /\ files = {}
    /\ start_files = {}
    /\ n_days = 0
    /\ m_i = 0
    /\ calls = <<>>
    /\ recorded_rainfall_raster_filepath = None
    /\ classified_forecasted_rainfall_filepaths = <<>>
    /\ final_map_filepaths = <<>>
    /\ first_run = None

\* The first run starts on a checkout with no output artifact.
MainInit ==
    /\ m_pc = "constants"
    /\ run = 1
    /\ files = {}
    /\ start_files = {}
    /\ n_days \in 0..MaxDays
    /\ m_i = 1
    /\ calls = <<>>
    /\ recorded_rainfall_raster_filepath = None
    /\ classified_forecasted_rainfall_filepaths = <<>>
    /\ final_map_filepaths = <<>>
    /\ first_run = None

\* main.py 85-88: the classified raster of this factor exists, skip
ConstantSkip ==
    /\ m_pc = "constants"
    /\ m_i <= Len(Factors)
    /\ ClassifiedRaster(m_i) \in files
    /\ m_i' = m_i + 1
    /\ UNCHANGED <<m_pc, run, files, start_files, n_days, calls,
                   recorded_rainfall_raster_filepath,
                   classified_forecasted_rainfall_filepaths,
                   final_map_filepaths, first_run>>
    /\ UNCHANGED notMain

\* main.py 89-95: constants_raster_pipeline writes the classified raster
ConstantPipeline ==
    /\ m_pc = "constants"
    /\ m_i <= Len(Factors)
    /\ ClassifiedRaster(m_i) \notin files
    /\ calls' = calls \o Logged("constants", ConstantsCalls)
    /\ files' = files \cup {ClassifiedRaster(m_i)}
    /\ m_i' = m_i + 1
    /\ UNCHANGED <<m_pc, run, start_files, n_days,
                   recorded_rainfall_raster_filepath,
                   classified_forecasted_rainfall_filepaths,
                   final_map_filepaths, first_run>>
    /\ UNCHANGED notMain

\* the loop of main.py 85 has ended
ConstantsEnd ==
    /\ m_pc = "constants"
    /\ m_i > Len(Factors)
    /\ m_pc' = "base"
    /\ UNCHANGED <<run, files, start_files, n_days, m_i, calls,
                   recorded_rainfall_raster_filepath,
                   classified_forecasted_rainfall_filepaths,
                   final_map_filepaths, first_run>>
    /\ UNCHANGED notMain

\* main.py 102-104: the base map exists, skip
BaseSkip ==
    /\ m_pc = "base"
    /\ BaseMap \in files
    /\ m_pc' = "recorded"
    /\ UNCHANGED <<run, files, start_files, n_days, m_i, calls,
                   recorded_rainfall_raster_filepath,
                   classified_forecasted_rainfall_filepaths,
                   final_map_filepaths, first_run>>
    /\ UNCHANGED notMain

\* main.py 105-173: the overlay reads the classified rasters and writes the
\* base map
BaseCreate ==
    /\ m_pc = "base"
    /\ BaseMap \notin files
    /\ calls' = calls \o Logged("base", BaseCalls)
    /\ files' = files \cup {BaseMap}
    /\ m_pc' = "recorded"
    /\ UNCHANGED <<run, start_files, n_days, m_i,
                   recorded_rainfall_raster_filepath,
                   classified_forecasted_rainfall_filepaths,
                   final_map_filepaths, first_run>>
    /\ UNCHANGED notMain

\* main.py 181-199: the summed csv is written; the recorded rainfall raster
\* exists and its path is reused
RecordedSkipRecomputes ==
    /\ m_pc = "recorded"
    /\ RecordedRaster \in files
    /\ calls' = calls \o Logged("recorded", PipelineCalls)
    /\ recorded_rainfall_raster_filepath' = Some(RecordedRaster)
    /\ m_pc' = "forecast"
    /\ m_i' = 1
    /\ UNCHANGED <<run, files, start_files, n_days,
                   classified_forecasted_rainfall_filepaths,
                   final_map_filepaths, first_run>>
    /\ UNCHANGED notMain

RecordedSkip ==
    /\ m_pc = "recorded"
    /\ RecordedRaster \in files
    /\ recorded_rainfall_raster_filepath' = Some(RecordedRaster)
    /\ m_pc' = "forecast"
    /\ m_i' = 1
    /\ UNCHANGED <<run, files, start_files, n_days, calls,
                   classified_forecasted_rainfall_filepaths,
                   final_map_filepaths, first_run>>
    /\ UNCHANGED notMain

\* main.py 200-208: forecast_pipeline writes the recorded rainfall raster
RecordedPipeline ==
    /\ m_pc = "recorded"
    /\ RecordedRaster \notin files
    /\ calls' = calls \o Logged("recorded", PipelineCalls)
    /\ files' = files \cup {RecordedRaster}
    /\ recorded_rainfall_raster_filepath' = Some(RecordedRaster)
    /\ m_pc' = "forecast"
    /\ m_i' = 1
    /\ UNCHANGED <<run, start_files, n_days,
                   classified_forecasted_rainfall_filepaths,
                   final_map_filepaths, first_run>>
    /\ UNCHANGED notMain

\* main.py 222-240: one forecast day; forecast_pipeline runs without any
\* existence check and its output path is appended to the list
ForecastDay ==
    /\ m_pc = "forecast"
    /\ FLAG_UPDATE_FORECAST_RASTERS = 1
    /\ m_i <= n_days
    /\ calls' = calls \o Logged("forecast", PipelineCalls)
    /\ files' = files \cup {ForecastRaster(m_i)}
    /\ classified_forecasted_rainfall_filepaths' =
         Append(classified_forecasted_rainfall_filepaths, ForecastRaster(m_i))
    /\ m_i' = m_i + 1
    /\ UNCHANGED <<m_pc, run, start_files, n_days,
                   recorded_rainfall_raster_filepath, final_map_filepaths,
                   first_run>>
    /\ UNCHANGED notMain

\* main.py 229, 252: the loop over the days has ended with a non-empty list
ForecastEnd ==
    /\ m_pc = "forecast"
    /\ m_i > n_days
    /\ classified_forecasted_rainfall_filepaths # <<>>
    /\ m_pc' = "final"
    /\ m_i' = 1
    /\ UNCHANGED <<run, files, start_files, n_days, calls,
                   recorded_rainfall_raster_filepath,
                   classified_forecasted_rainfall_filepaths,
                   final_map_filepaths, first_run>>
    /\ UNCHANGED notMain

\* main.py 263-265: no forecast raster, exit()
NoForecastExit ==
    /\ m_pc = "forecast"
    /\ m_i > n_days
    /\ classified_forecasted_rainfall_filepaths = <<>>
    /\ m_pc' = "done"
    /\ UNCHANGED <<run, files, start_files, n_days, m_i, calls,
                   recorded_rainfall_raster_filepath,
                   classified_forecasted_rainfall_filepaths,
                   final_map_filepaths, first_run>>
    /\ UNCHANGED notMain

\* main.py 253-262: the final map of one forecast day, written without any
\* existence check
FinalMap ==
    /\ m_pc = "final"
    /\ m_i <= Len(classified_forecasted_rainfall_filepaths)
    /\ calls' = calls \o Logged("final", FinalCalls)
    /\ files' = files \cup {FinalMapFile(m_i)}
    /\ final_map_filepaths' = Append(final_map_filepaths, FinalMapFile(m_i))
    /\ m_i' = m_i + 1
    /\ UNCHANGED <<m_pc, run, start_files, n_days,
                   recorded_rainfall_raster_filepath,
                   classified_forecasted_rainfall_filepaths, first_run>>
    /\ UNCHANGED notMain

\* main.py 268-269: the run ends
MainEnd ==
    /\ m_pc = "final"
    /\ m_i > Len(classified_forecasted_rainfall_filepaths)
    /\ m_pc' = "done"
    /\ UNCHANGED <<run, files, start_files, n_days, m_i, calls,
                   recorded_rainfall_raster_filepath,
                   classified_forecasted_rainfall_filepaths,
                   final_map_filepaths, first_run>>
    /\ UNCHANGED notMain

\* What a run yields: the paths of main.py 199/201, 217 and 259
Yielded ==
    <<recorded_rainfall_raster_filepath,
      classified_forecasted_rainfall_filepaths, final_map_filepaths>>

\* main.py is invoked again with the same configuration; in between the
\* operator may have deleted artifacts (nothing else deletes them)
RunAgain ==
    /\ m_pc = "done"
    /\ run < MaxRuns
    /\ \E gone \in SUBSET files :
         /\ Cardinality(gone) <= MaxDeleted
         /\ files' = files \ gone
         /\ start_files' = files \ gone
    /\ first_run' = IF run = 1 THEN Some(Yielded) ELSE first_run
    /\ run' = run + 1
    /\ m_pc' = "constants"
    /\ m_i' = 1
    /\ calls' = <<>>
    /\ recorded_rainfall_raster_filepath' = None
    /\ classified_forecasted_rainfall_filepaths' = <<>>
    /\ final_map_filepaths' = <<>>
    /\ UNCHANGED n_days
    /\ UNCHANGED notMain

MainNext ==
    \/ ConstantSkip
    \/ ConstantPipeline
    \/ ConstantsEnd
    \/ BaseSkip
    \/ BaseCreate
    \/ RecordedSkip
    \/ RecordedPipeline
    \/ ForecastDay
    \/ ForecastEnd
    \/ NoForecastExit
    \/ FinalMap
    \/ MainEnd
    \/ RunAgain

---------------------------------------------------------------------------
(* Start-up of main.py: the dataclasses of constants.py and the inputs     *)

\* The expected inputs, named by kind and name.
Folder(n) == <<"folder", n>>
Vector(n) == <<"vector", n>>
RawRaster(f) == <<"raster", f>>
RainfallCsv(n) == <<"csv", n>>

\* FolderPaths (constants.py 86-88)
Folders == {Folder("input"), Folder("output"), Folder("processed")}
\* RawVectorsFilePaths (constants.py 99-100)
Vectors == {Vector("buffered_boundary_utm45n"), Vector("exact_boundary_utm45n")}
\* RawRastersFilePaths (constants.py 111-120): ten fields
RawRasters == {RawRaster(f) : f \in FactorSet}
\* the rainfall tables (main.py 68-69)
RainfallTables == {RainfallCsv("forecast"), RainfallCsv("record")}

ExpectedInputs == Folders \cup Vectors \cup RawRasters \cup RainfallTables

\* Every input but ./Output/ lies under ./Input/.
Parents(p) == IF p \in {Folder("input"), Folder("output")} THEN {}
              ELSE {Folder("input")}

\* path.exists(): neither the path nor a folder above it was removed
Exists(p) == p \notin removed /\ Parents(p) \cap removed = {}

MissingOf(paths) == {p \in paths : ~Exists(p)}

\* The lists the three __post_init__ test (constants.py 91, 103, 123-132);
\* geology is not in the third.
folder_paths == Folders
vector_file_paths == Vectors
raster_file_paths == {RawRaster(f) : f \in FactorSet \ {"geology"}}

\* The exception raised, by whom, and the paths its message names
Raised(who, names) == Some([by |-> who, names |-> names])

\* Weight tables main.py may be started with: the defaults, a zero weight
\* that __post_init__ tests, a zero weight on fault, and a sum that rounds
\* to 2.
StartTables ==
    {DefaultWeights,
     [DefaultWeights EXCEPT !["slope"] = 0],
     [DefaultWeights EXCEPT !["fault"] = 0],
     [DefaultWeights EXCEPT !["geology"] = 80]}

StartIdle ==
    /\ s_pc = "idle"
    /\ removed = {}
    /\ s_weights = DefaultWeights
    /\ s_i = 0
    /\ s_error = None
    /\ s_calls = 0

\* A checkout with no classified raster yet, from which at most MaxRemoved
\* inputs were removed.
StartInit ==
    /\ s_pc = "FolderPaths"
    /\ removed \in {x \in SUBSET ExpectedInputs : Cardinality(x) <= MaxRemoved}
    /\ s_weights \in StartTables
    /\ s_i = 1
    /\ s_error = None
    /\ s_calls = 0

\* Each __post_init__ over paths raises one FileNotFoundError naming every
\* missing path of its own list, or returns.

\* main.py 58, constants.py 90-94
NewFolderPaths ==
    /\ s_pc = "FolderPaths"
    /\ IF MissingOf(folder_paths) # {}
       THEN /\ s_error' = Raised("FolderPaths", MissingOf(folder_paths))
            /\ s_pc' = "error"
       ELSE /\ s_pc' = "RawVectorsFilePaths"
            /\ UNCHANGED s_error
    /\ UNCHANGED <<removed, s_weights, s_i, s_calls>>
    /\ UNCHANGED notStart

\* main.py 60, constants.py 102-106
NewRawVectorsFilePaths ==
    /\ s_pc = "RawVectorsFilePaths"
    /\ IF MissingOf(vector_file_paths) # {}
       THEN /\ s_error' = Raised("RawVectorsFilePaths", MissingOf(vector_file_paths))
            /\ s_pc' = "error"
       ELSE /\ s_pc' = "RawRastersFilePaths"
            /\ UNCHANGED s_error
    /\ UNCHANGED <<removed, s_weights, s_i, s_calls>>
    /\ UNCHANGED notStart

\* main.py 61, constants.py 122-136; main.py 62 and 64 test nothing
NewRawRastersFilePaths ==
    /\ s_pc = "RawRastersFilePaths"
    /\ IF MissingOf(raster_file_paths) # {}
       THEN /\ s_error' = Raised("RawRastersFilePaths", MissingOf(raster_file_paths))
            /\ s_pc' = "error"
       ELSE /\ s_pc' = "FinalWeights"
            /\ UNCHANGED s_error
    /\ UNCHANGED <<removed, s_weights, s_i, s_calls>>
    /\ UNCHANGED notStart

\* main.py 66, constants.py 166-187
StartFinalWeights ==
    /\ s_pc = "FinalWeights"
    /\ IF PostInit(s_weights) # "accepted"
       THEN /\ s_error' = Raised(PostInit(s_weights), {})
            /\ s_pc' = "error"
       ELSE /\ s_pc' = "constants"
            /\ UNCHANGED s_error
    /\ UNCHANGED <<removed, s_weights, s_i, s_calls>>
    /\ UNCHANGED notStart

\* main.py 85-95, one factor: constants_raster_pipeline opens the raw raster
\* in classify_raster (functions.py 106), which raises if it is not there,
\* and otherwise classifies and clips
StartConstantPipeline ==
    /\ s_pc = "constants"
    /\ s_i <= Len(Factors)
    /\ IF Exists(RawRaster(Factors[s_i]))
       THEN /\ s_calls' = s_calls + Len(ConstantsCalls)
            /\ s_i' = s_i + 1
            /\ UNCHANGED <<s_pc, s_error>>
       ELSE /\ s_calls' = s_calls + 1
            /\ s_error' = Raised("gdal.Open", {RawRaster(Factors[s_i])})
            /\ s_pc' = "error"
            /\ UNCHANGED s_i
    /\ UNCHANGED <<removed, s_weights>>
    /\ UNCHANGED notStart

\* main.py 102-173: the base map is made from the ten classified rasters
StartBaseMap ==
    /\ s_pc = "constants"
    /\ s_i > Len(Factors)
    /\ s_calls' = s_calls + Len(BaseCalls)
    /\ s_pc' = "recorded"
    /\ UNCHANGED <<removed, s_weights, s_i, s_error>>
    /\ UNCHANGED notStart

\* main.py 182-208: the recorded rainfall table is read with pd.read_csv,
\* which raises if it is not there; then its raster is made
StartRecorded ==
    /\ s_pc = "recorded"
    /\ IF Exists(RainfallCsv("record"))
       THEN /\ s_calls' = s_calls + Len(PipelineCalls)
            /\ s_pc' = "forecast"
            /\ UNCHANGED s_error
       ELSE /\ s_error' = Raised("pd.read_csv", {RainfallCsv("record")})
            /\ s_pc' = "error"
            /\ UNCHANGED s_calls
    /\ UNCHANGED <<removed, s_weights, s_i>>
    /\ UNCHANGED notStart

\* main.py 223-240: the forecast table is read (functions.py 79), then the
\* forecast rasters are made
StartForecast ==
    /\ s_pc = "forecast"
    /\ IF Exists(RainfallCsv("forecast"))
       THEN /\ s_calls' = s_calls + Len(PipelineCalls)
            /\ s_pc' = "running"
            /\ UNCHANGED s_error
       ELSE /\ s_error' = Raised("pd.read_csv", {RainfallCsv("forecast")})
            /\ s_pc' = "error"
            /\ UNCHANGED s_calls
    /\ UNCHANGED <<removed, s_weights, s_i>>
    /\ UNCHANGED notStart

StartNext ==
    \/ NewFolderPaths
    \/ NewRawVectorsFilePaths
    \/ NewRawRastersFilePaths
    \/ StartFinalWeights
    \/ StartConstantPipeline
    \/ StartBaseMap
    \/ StartRecorded
    \/ StartForecast

---------------------------------------------------------------------------
(* The stage chains: forecast_pipeline and constants_raster_pipeline       *)

\* The pipeline invocations followed: first ConstantChains invocations of
\* constants_raster_pipeline (main.py 90), then one forecast_pipeline per
\* forecast day (main.py 230).
NChains == ConstantChains + MaxDays
ChainIds == 1..NChains
ForecastChains == (ConstantChains + 1)..NChains
KindOf(d) == IF d <= ConstantChains THEN "constants" ELSE "forecast"

\* The fixed in-memory file names: '/vsimem/step0.tif' .. '/vsimem/step3.tif'
BufferNames == {"step0", "step1", "step2", "step3"}

\* One statement of a pipeline: a stage reading src and writing dst, or
\* _clear_memory of src.
Stmt(op, src, dst) == [op |-> op, src |-> src, dst |-> dst]

\* forecast_pipeline, functions.py 301-337
ForecastProgram ==
    << Stmt("grid", "input", "step0"),
       Stmt("reproject", "step0", "step1"),
       Stmt("clear", "step0", ""),
       Stmt("resample", "step1", "step2"),
       Stmt("clear", "step1", ""),
       Stmt("clip", "step2", "step3"),
       Stmt("clear", "step2", ""),
       Stmt("classify", "step3", "output"),
       Stmt("clear", "step3", ""),
       Stmt("clear", "output", "") >>

\* constants_raster_pipeline, functions.py 350-363
ConstantsProgram ==
    << Stmt("classify", "input", "step1"),
       Stmt("clip", "step1", "output"),
       Stmt("clear", "step1", ""),
       Stmt("clear", "output", "") >>

Program(d) == IF KindOf(d) = "forecast" THEN ForecastProgram ELSE ConstantsProgram

\* What a raster holds: the input it derives from, the stages applied to
\* it, and the chain that wrote it.
Content(src, ops, by) == [src |-> src, ops |-> ops, by |-> by]

\* An output raster left by an earlier run of main.py
Old == Content(0, <<"classify">>, 0)

Running(d) == chain[d].status = "running" /\ chain[d].pc <= Len(Program(d))
Current(d) == Program(d)[chain[d].pc]

\* gdal.Open of the source of a stage: the chain's own input, or whatever
\* the named file holds now
Source(d, name) ==
    IF name = "input" THEN Some(Content(d, <<>>, d))
    ELSE IF name = "output" THEN disk[d]
    ELSE vsimem[name]

PipeIdle ==
    /\ p_pc = "idle"
    /\ p_i = 0
    /\ chain = <<>>
    /\ out_kind = "Path"
    /\ vsimem = <<>>
    /\ disk = <<>>
    /\ finals = {}

\* The pipelines are called one after the other, as main.py does.  The
\* classified rasters do not exist (main.py 86 calls the pipeline only then);
\* a forecast raster may exist from an earlier run.  main.py passes Path
\* outputs; the functions accept str as well (functions.py 299, 344).
PipeInit ==
    /\ p_pc = "loop"
    /\ p_i = 1
    /\ chain = [d \in ChainIds |-> [status |-> "ready", pc |-> 1]]
    /\ out_kind \in {"Path", "str"}
    /\ vsimem = [b \in BufferNames |-> None]
    /\ disk \in {f \in [ChainIds -> {None, Some(Old)}] :
                   \A d \in ChainIds : KindOf(d) = "constants" => f[d] = None}
    /\ finals = {}

\* forecast_pipeline is invoked for every forecast day at once, as tasks
\* that run interleaved.
TasksInit ==
    /\ p_pc = "tasks"
    /\ p_i = 0
    /\ chain = [d \in ChainIds |->
                  [status |-> IF d \in ForecastChains THEN "running" ELSE "ready",
                   pc |-> 1]]
    /\ out_kind \in {"Path", "str"}
    /\ vsimem = [b \in BufferNames |-> None]
    /\ disk = [d \in ChainIds |-> None]
    /\ finals = {}

\* One stage of chain d returns: it has read its source and written its
\* destination, replacing whatever the destination held.
Stage(d) ==
    /\ Running(d)
    /\ Current(d).op # "clear"
    /\ ~IsNone(Source(d, Current(d).src))
    /\ LET c == Get(Source(d, Current(d).src))
           out == Some(Content(c.src, Append(c.ops, Current(d).op), d))
       IN IF Current(d).dst = "output"
          THEN /\ disk' = [disk EXCEPT ![d] = out]
               /\ UNCHANGED vsimem
          ELSE /\ vsimem' = [vsimem EXCEPT ![Current(d).dst] = out]
               /\ UNCHANGED disk
    /\ chain' = [chain EXCEPT ![d].pc = @ + 1]
    /\ UNCHANGED <<p_pc, p_i, out_kind, finals>>
    /\ UNCHANGED notPipe

\* One stage of chain d raises (gdal.UseExceptions, functions.py 6-7): its
\* source is not there or the raster engine fails.  Nothing in the pipeline
\* catches it.
StageFails(d) ==
    /\ Running(d)
    /\ Current(d).op # "clear"
    /\ chain' = [chain EXCEPT ![d].status = "failed"]
    /\ UNCHANGED <<p_pc, p_i, out_kind, vsimem, disk, finals>>
    /\ UNCHANGED notPipe

\* _clear_memory without its gdal.Unlink (not the program)
ClearMemoryKeeps(d) ==
    /\ Running(d)
    /\ Current(d).op = "clear"
    /\ chain' = [chain EXCEPT ![d].pc = @ + 1]
    /\ UNCHANGED <<p_pc, p_i, out_kind, vsimem, disk, finals>>
    /\ UNCHANGED notPipe

\* _clear_memory (functions.py 13-17): a Path is left alone, a str is
\* unlinked, be it a /vsimem/ name or the output path
ClearMemory(d) ==
    /\ Running(d)
    /\ Current(d).op = "clear"
    /\ IF Current(d).src = "output"
       THEN /\ disk' = IF out_kind = "Path" THEN disk
                       ELSE [disk EXCEPT ![d] = None]
            /\ UNCHANGED vsimem
       ELSE /\ vsimem' = [vsimem EXCEPT ![Current(d).src] = None]
            /\ UNCHANGED disk
    /\ chain' = [chain EXCEPT ![d].pc = @ + 1]
    /\ UNCHANGED <<p_pc, p_i, out_kind, finals>>
    /\ UNCHANGED notPipe

\* gdal.Unlink of a /vsimem/ file that is not there may raise
ClearRaises(d) ==
    /\ Running(d)
    /\ Current(d).op = "clear"
    /\ Current(d).src \in BufferNames
    /\ IsNone(vsimem[Current(d).src])
    /\ chain' = [chain EXCEPT ![d].status = "failed"]
    /\ UNCHANGED <<p_pc, p_i, out_kind, vsimem, disk, finals>>
    /\ UNCHANGED notPipe

\* return output_raster_filepath (functions.py 339, 365)
Return(d) ==
    /\ chain[d].status = "running"
    /\ chain[d].pc > Len(Program(d))
    /\ chain' = [chain EXCEPT ![d].status = "returned"]
    /\ UNCHANGED <<p_pc, p_i, out_kind, vsimem, disk, finals>>
    /\ UNCHANGED notPipe

\* main.py 90, 230: the loop calls the pipeline of its next item
CallPipeline ==
    /\ p_pc = "loop"
    /\ p_i <= NChains
    /\ chain[p_i].status = "ready"
    /\ chain' = [chain EXCEPT ![p_i].status = "running"]
    /\ UNCHANGED <<p_pc, p_i, out_kind, vsimem, disk, finals>>
    /\ UNCHANGED notPipe

\* main.py 85, 229, 240: the pipeline has returned, the loop goes on
LoopOn ==
    /\ p_pc = "loop"
    /\ p_i <= NChains
    /\ chain[p_i].status = "returned"
    /\ p_i' = p_i + 1
    /\ UNCHANGED <<p_pc, chain, out_kind, vsimem, disk, finals>>
    /\ UNCHANGED notPipe

\* The exception of a failed stage leaves the pipeline and the loop; main.py
\* has no try statement, so the run ends there.
Propagate ==
    /\ p_pc = "loop"
    /\ p_i <= NChains
    /\ chain[p_i].status = "failed"
    /\ p_pc' = "aborted"
    /\ UNCHANGED <<p_i, chain, out_kind, vsimem, disk, finals>>
    /\ UNCHANGED notPipe

\* main.py 252-262: after the loops, one final map per forecast raster, in
\* order; gdal.Open raises on a forecast raster that is not there
FinalMaps ==
    /\ p_pc = "loop"
    /\ p_i > NChains
    /\ finals' = {d \in ForecastChains :
                    \A e \in ForecastChains : e <= d => ~IsNone(disk[e])}
    /\ p_pc' = IF finals' = ForecastChains THEN "done" ELSE "aborted"
    /\ UNCHANGED <<p_i, chain, out_kind, vsimem, disk>>
    /\ UNCHANGED notPipe

PipeNext ==
    \/ CallPipeline
    \/ LoopOn
    \/ Propagate
    \/ FinalMaps
    \/ \E d \in ChainIds : Stage(d)
    \/ \E d \in ChainIds : StageFails(d)
    \/ \E d \in ChainIds : ClearMemory(d)
    \/ \E d \in ChainIds : Return(d)

TasksNext ==
    \/ \E d \in ForecastChains : Stage(d)
    \/ \E d \in ForecastChains : StageFails(d)
    \/ \E d \in ForecastChains : ClearMemory(d)
    \/ \E d \in ForecastChains : ClearRaises(d)
    \/ \E d \in ForecastChains : Return(d)

---------------------------------------------------------------------------
(* Specifications: one per component, the others at rest                   *)

InitClassify ==
    ClsInit /\ WIdle /\ OvIdle /\ FinIdle /\ MainIdle /\ StartIdle /\ PipeIdle

SpecClassify == InitClassify /\ [][ClsNext]_vars

InitWeights ==
    ClsIdle /\ WInit /\ OvIdle /\ FinIdle /\ MainIdle /\ StartIdle /\ PipeIdle

SpecWeights == InitWeights /\ [][WNext]_vars

InitOverlay ==
    ClsIdle /\ WIdle /\ OvInit /\ FinIdle /\ MainIdle /\ StartIdle /\ PipeIdle

SpecOverlay == InitOverlay /\ [][OvNext]_vars

InitFinal ==
    ClsIdle /\ WIdle /\ OvIdle /\ FinInit /\ MainIdle /\ StartIdle /\ PipeIdle

SpecFinal == InitFinal /\ [][FinNext]_vars

InitMain ==
    ClsIdle /\ WIdle /\ OvIdle /\ FinIdle /\ MainInit /\ StartIdle /\ PipeIdle

SpecMain == InitMain /\ [][MainNext]_vars

InitStart ==
    ClsIdle /\ WIdle /\ OvIdle /\ FinIdle /\ MainIdle /\ StartInit /\ PipeIdle

SpecStart == InitStart /\ [][StartNext]_vars

InitPipelines ==
    ClsIdle /\ WIdle /\ OvIdle /\ FinIdle /\ MainIdle /\ StartIdle /\ PipeInit

SpecPipelines == InitPipelines /\ [][PipeNext]_vars

InitTasks ==
    ClsIdle /\ WIdle /\ OvIdle /\ FinIdle /\ MainIdle /\ StartIdle /\ TasksInit

SpecTasks == InitTasks /\ [][TasksNext]_vars


---------------------------------------------------------------------------
(* Claims about classify_raster, checked under SpecClassify                *)

ClsDone == c_pc = "done"
HasRules == ~IsNone(classification_range)
RuleList == Get(classification_range)

\* The interval of a rule as the specification states it.
Contains(rule, v) ==
    /\ IsNone(rule.low) \/ Get(rule.low) <= v
    /\ IsNone(rule.high) \/ v < Get(rule.high)

Matching(rl, v) == {i \in 1..Len(rl) : Contains(rl[i], v)}
LastMatching(rl, v) == CHOOSE i \in Matching(rl, v) : \A j \in Matching(rl, v) : j <= i

\* C1: with a rule list, a cell that does not hold the nodata value used by
\* classify_raster (the band's, or -128 when the band declares none) and lies
\* in the interval of at least one rule is written as the class code of the
\* LAST rule, in declared order, whose interval contains it.
C1_LastRuleWins ==
    (ClsDone /\ HasRules /\ array_ds # Get(nodata)
        /\ Matching(RuleList, array_ds) # {})
    => out_cell = Some(RuleList[LastMatching(RuleList, array_ds)].value)

\* C1 witness: two overlapping rules with different codes both contain the
\* valid cell, and the second one's code was written.
C1_Witness ==
    /\ ClsDone /\ HasRules /\ array_ds # Get(nodata)
    /\ Len(RuleList) = 2
    /\ Matching(RuleList, array_ds) = {1, 2}
    /\ RuleList[1].value # RuleList[2].value
    /\ out_cell = Some(RuleList[2].value)

\* C2: with a rule list, a valid cell (not the input nodata) that matches no
\* rule holds, in the output, exactly the value the output band declares as
\* its nodata, whatever nodata the input band declares.
C2_UnmatchedIsOutputNodata ==
    (ClsDone /\ HasRules /\ array_ds # Get(nodata)
        /\ Matching(RuleList, array_ds) = {})
    => out_cell = out_nodata

\* C3: with a rule list, a cell holding the input nodata value is the output
\* nodata sentinel, also when intervals numerically cover the nodata value.
C3_NodataStaysNodata ==
    (ClsDone /\ HasRules /\ array_ds = Get(nodata))
    => (out_cell = out_nodata /\ out_cell = Some(DefaultNoData))

\* C3 witness: the nodata cell is covered by a bounded rule (whose mask of
\* line 132 does not exclude nodata) and still ends as the sentinel.
C3_Witness ==
    /\ ClsDone /\ HasRules /\ array_ds = Get(nodata)
    /\ \E i \in 1..Len(RuleList) :
          /\ ~IsNone(RuleList[i].low) /\ ~IsNone(RuleList[i].high)
          /\ Contains(RuleList[i], array_ds)
    /\ out_cell = Some(DefaultNoData)

\* C4: the pass-through (classification_range None) writes a raster identical
\* to its input: each output cell has the input cell's value, and it is nodata
\* under the output's declared sentinel exactly when the input cell is nodata
\* under the input band's declared nodata.
C4_PassThroughIdentity ==
    (ClsDone /\ ~HasRules)
    => /\ out_cell = Some(array_ds)
       /\ (out_cell = out_nodata) <=> (band_nodata = Some(array_ds))

---------------------------------------------------------------------------
(* Claims about the base map overlay, checked under SpecOverlay            *)

OvDone == o_pc = "done"
Sentinel == Some(Hundredths(DefaultNoData))

RECURSIVE WeightedValidSum(_, _, _)
\* Sum of value * weight over the layers i..Len(ls) that are not nodata.
WeightedValidSum(ls, w, i) ==
    IF i > Len(ls) THEN 0
    ELSE (IF ls[i] # LayerNoData THEN ls[i] * w[Factors[i]] ELSE 0)
         + WeightedValidSum(ls, w, i + 1)

\* C5: a cell that is nodata in the FIRST layer is the nodata sentinel in the
\* fused output, whatever the later layers hold there.
C5_FirstLayerNodataIsFinal ==
    (OvDone /\ layers[1] = LayerNoData) => summed_array = Sentinel

\* C6: a cell valid in the first layer is fused to the sum of value * weight
\* over exactly the layers that are not nodata at that cell; a negative sum
\* becomes the nodata sentinel.
C6_SumOfValidLayers ==
    (OvDone /\ layers[1] # LayerNoData)
    => LET total == WeightedValidSum(layers, FINAL_WEIGHTS, 1) IN
         summed_array = IF total < 0 THEN Sentinel ELSE Some(total)

\* C6 witness: the example L1 = 10 at 0.5, L2 = nodata at 0.3, L3 = 5 at 0.2,
\* nothing else valid, fused to 6.0.
C6_Witness ==
    /\ OvDone
    /\ FINAL_WEIGHTS = ExampleWeights
    /\ layers[1] = 10 /\ layers[2] = LayerNoData /\ layers[3] = 5
    /\ \A i \in 4..Len(layers) : layers[i] = LayerNoData
    /\ summed_array = Some(600)

\* A negative sum over the valid layers was clamped to the sentinel.
C6_ClampReached ==
    /\ OvDone /\ layers[1] # LayerNoData
    /\ WeightedValidSum(layers, FINAL_WEIGHTS, 1) < 0
    /\ summed_array = Sentinel

---------------------------------------------------------------------------
(* Claims about the rainfall fusion, checked under SpecFinal               *)

FinDone == f_pc = "done"

\* base + (S / base) * recorded * 0.02 + (S / base) * forecast * 0.1 as the
\* claim writes it, in fiftieths: 50 * base + (S * recorded + 5 * S * forecast) / base
Expected(S, b, r, f) ==
    Fraction(50 * b * b + S * r + 5 * S * f, 50 * b)

\* max - min of the valid cells of the base raster as it is on disk
FileScaling ==
    LET valid == {base_file[i] : i \in 1..NCells} \ {DefaultNoData}
    IN SetMax(valid) - SetMin(valid)

\* C7: every cell with base > 0, recorded >= 0 and forecast >= 0 is written as
\* base + (S/base)*recorded*recordedWeight + (S/base)*forecast*forecastWeight,
\* S being max - min of the base raster's valid cells before any masking.
C7_FusionFormula ==
    FinDone =>
      \A i \in 1..NCells :
         (base_file[i] > 0 /\ recorded_file[i] >= 0 /\ forecast_file[i] >= 0)
         => Get(result)[i] = Expected(FileScaling, base_file[i],
                                      recorded_file[i], forecast_file[i])

\* C7 witness: base = 100 in a raster of range 0..200, recorded = 10,
\* forecast = 5, written as 101.4.
C7_Witness ==
    /\ FinDone
    /\ \E i \in 1..NCells :
         /\ base_file[i] = 100 /\ recorded_file[i] = 10 /\ forecast_file[i] = 5
         /\ FileScaling = 200
         /\ Get(result)[i] = [n |-> 507, d |-> 5]

\* A cell is masked in an input of the fusion: lines 390, 396, 402.
MaskedInput(i) ==
    base_file[i] <= 0 \/ recorded_file[i] < 0 \/ forecast_file[i] < 0

\* C17: every cell that is masked in any input (base <= 0, recorded < 0 or
\* forecast < 0) is the nodata sentinel -128 in the output of the fusion; an
\* output cell is a valid value only if all three inputs are valid there.
C17_MaskedCellIsNodata ==
    FinDone =>
      \A i \in 1..NCells :
         MaskedInput(i) => Get(result)[i] = Whole(DefaultNoData)

---------------------------------------------------------------------------
(* Claims about FinalWeights, checked under SpecWeights                    *)

WDone == w_pc \in {"accepted", "zero_error", "sum_error"}
NoZeroWeight == \A f \in FactorSet : weights[f] # 0
TenSum == SumOver(weights, Factors)

\* C8: with all ten weights non-zero, a table whose ten weights sum to 0.97
\* is accepted and one whose ten weights sum to 0.80 is rejected; the sum
\* tested covers all ten factors, so an accepted table's ten weights round
\* to 1.
C8_SumOfAllTenDecides ==
    (WDone /\ NoZeroWeight)
    => /\ TenSum = 97 => w_pc = "accepted"
       /\ TenSum = 80 => w_pc = "sum_error"
       /\ w_pc = "accepted" => Round(TenSum) = 1

\* C9: a table in which the weight of any of the ten factors is zero is
\* rejected, whatever the sum.
C9_AnyZeroWeightRejected ==
    (WDone /\ ~NoZeroWeight) => w_pc # "accepted"

---------------------------------------------------------------------------
(* Claims about the orchestrator, checked under SpecMain                   *)

MainDone == m_pc = "done"

\* The run is a second run that began with every artifact of the first run
\* in place.
CachedRerun ==
    /\ run = 2
    /\ MainDone
    /\ AllArtifacts(n_days) \subseteq start_files

CallsOf(section) == {i \in 1..Len(calls) : calls[i][1] = section}
CountOf(section, call) ==
    Cardinality({i \in 1..Len(calls) : calls[i] = <<section, call>>})

---------------------------------------------------------------------------
(* Claims about the start-up of main.py, checked under SpecStart           *)

StartEnded == s_pc \in {"error", "running"}
Missing == MissingOf(ExpectedInputs)

\* C12: when expected inputs are absent at start-up (folders, boundary vector
\* files, the ten raw factor rasters, the rainfall tables), the run fails with
\* a single error that names every missing path.
C12_AllMissingNamedAtOnce ==
    (StartEnded /\ Missing # {})
    => (~IsNone(s_error) /\ Get(s_error).names = Missing)

\* A weight table the specification calls invalid: a zero weight, or a sum
\* of the weights that does not round to 1.
InvalidTable(w) ==
    (\E f \in FactorSet : w[f] = 0) \/ Round(SumOver(w, Factors)) # 1

\* C13: weight validation completes before the first collaborator call, so a
\* run whose weight table is invalid (a zero weight, or a sum that does not
\* round to 1) makes no raster engine call at all.
C13_InvalidTableNoRasterWork ==
    InvalidTable(s_weights) => s_calls = 0

---------------------------------------------------------------------------
(* Claims about the stage chains, checked under SpecPipelines and SpecTasks *)

\* The /vsimem/ files that exist
Present == {b \in BufferNames : ~IsNone(vsimem[b])}

\* The order of the stages as the specification states it
StageOrder(d) ==
    IF KindOf(d) = "forecast"
    THEN <<"grid", "reproject", "resample", "clip", "classify">>
    ELSE <<"classify", "clip">>

\* The raster chain d produces when it runs alone
Alone(d) == Content(d, StageOrder(d), d)

Returned(d) == chain[d].status = "returned"
Failed(d) == chain[d].status = "failed"
AtStage(d) == Running(d) /\ Current(d).op # "clear"

\* C11: if a stage of one forecast day's chain fails, the chains of all other
\* forecast days still run to completion and their final maps are produced.
C11_OtherDaysComplete ==
    p_pc \in {"done", "aborted"}
    => \A d \in ForecastChains :
          Failed(d) => \A e \in ForecastChains \ {d} :
                          Returned(e) /\ e \in finals

\* C14: once an artifact exists at its output path, no step of the pipeline
\* rewrites or deletes it, in the run that made it or in a later run, be the
\* output path a Path or a str.
C14_ArtifactsImmutable ==
    [][\A d \in DOMAIN disk : ~IsNone(disk[d]) => disk'[d] = disk[d]]_vars

\* C15: when the chains of two forecast days run interleaved, the buffer a
\* stage is about to read was written by its own chain, and the output of
\* each chain that returns is the raster it produces when run alone.
C15_ChainsIndependent ==
    \A d \in ForecastChains :
       /\ (AtStage(d) /\ Current(d).src \in Present)
            => Get(vsimem[Current(d).src]).by = d
       /\ (Returned(d) /\ ~IsNone(disk[d])) => disk[d] = Some(Alone(d))

\* C16: the stages of a pipeline run in the stated order, each reading
\* exactly what the stage before it wrote; when a stage starts, the only
\* intermediate buffer that exists is the one it reads; at most two exist at
\* any moment and none exists while no pipeline is running, every pipeline
\* called so far having returned.
C16_StageChainDiscipline ==
    /\ Cardinality(Present) <= 2
    /\ \A d \in DOMAIN chain :
          /\ AtStage(d) =>
                /\ ~IsNone(Source(d, Current(d).src))
                /\ LET c == Get(Source(d, Current(d).src)) IN
                      /\ c.src = d /\ c.by = d
                      /\ c.ops = SubSeq(StageOrder(d), 1, Len(c.ops))
                      /\ Current(d).op = StageOrder(d)[Len(c.ops) + 1]
                /\ Present = {Current(d).src} \ {"input"}
          /\ (Returned(d) /\ out_kind = "Path") => disk[d] = Some(Alone(d))
    /\ (\A d \in DOMAIN chain : chain[d].status \in {"ready", "returned"})
         => Present = {}

\* C16 witness: a forecast_pipeline and a constants_raster_pipeline have
\* returned, each output is the raster of its stages in order, and no
\* intermediate buffer is left.
C16_Witness ==
    /\ out_kind = "Path"
    /\ \E d \in ForecastChains : Returned(d) /\ disk[d] = Some(Alone(d))
    /\ Returned(1) /\ disk[1] = Some(Alone(1))
    /\ Present = {}

\* Two intermediate buffers exist: clip has returned and its source is not
\* yet released.
C16_TwoBuffers ==
    \E d \in ForecastChains :
       /\ Running(d) /\ Current(d) = Stmt("clear", "step2", "")
       /\ Present = {"step2", "step3"}

=============================================================================
